---- MODULE Spec2Model ----
(***************************************************************************)
(* Comp selection and valuation engine of the pricing bot:                 *)
(*   utils/valuation.py  get_subject_data, fetch_*, get_clean_comps,       *)
(*                       get_comp_summary                                  *)
(*   utils/comps.py      get_comps_and_arv                                 *)
(*   main.py             on_message                                        *)
(*                                                                         *)
(* Conventions of the model                                                *)
(*  - None is Python's None; a missing dictionary key reads as None        *)
(*    (dict.get), so the empty dict {} is the record with every field None.*)
(*  - A candidate record carries the value each `a or b` lookup chain of   *)
(*    the code yields: beds is `bedrooms or building.rooms.beds`, price is *)
(*    `price or lastSoldPrice or sale.amount`, and so on.                  *)
(*  - A location is a position on a line, in miles; Distance stands for    *)
(*    the haversine distance of two locations.                             *)
(*  - saleAge is the sale date as a number of months before now; Unparsed  *)
(*    is a saleDate string that strptime rejects.                          *)
(*  - psf values are exact rationals <<numerator, denominator>> in lowest  *)
(*    terms (the code uses floats).                                        *)
(***************************************************************************)
EXTENDS Integers, Sequences, FiniteSets, TLC

\* ------------------------------------------------------------ bounds
MaxPool == 4
MaxSimPool == 3
MaxYearPool == 3
MaxResp == 2

\* ------------------------------------------------------------ values
None == -1

Truthy(x) == x # None /\ x # 0

Abs(x) == IF x < 0 THEN -x ELSE x

RECURSIVE Gcd(_, _)
Gcd(a, b) == IF b = 0 THEN a ELSE Gcd(b, a % b)

Rat(n, d) == LET g == Gcd(n, d) IN <<n \div g, d \div g>>

RatAdd(p, q) == Rat(p[1] * q[2] + q[1] * p[2], p[2] * q[2])

RatDivInt(p, k) == Rat(p[1], p[2] * k)

RECURSIVE RatSum(_)
RatSum(s) == IF s = <<>> THEN <<0, 1>> ELSE RatAdd(Head(s), RatSum(Tail(s)))

\* round(psf, 2), in hundredths, ties to even
Round2(p) ==
    LET n == 100 * p[1]
        q == n \div p[2]
        r == n % p[2]
    IN  IF 2 * r > p[2] THEN q + 1
        ELSE IF 2 * r < p[2] THEN q
        ELSE IF q % 2 = 0 THEN q ELSE q + 1

SeqsUpTo(S, n) == UNION {[1..k -> S] : k \in 0..n}

\* ------------------------------------------------------------ get_clean_comps
sqft_tolerance == 500
year_tolerance == 25

Tiers ==
    << [radius |-> 1, grade |-> "A+"], [radius |-> 2, grade |-> "B+"],
       [radius |-> 3, grade |-> "C+"], [radius |-> 5, grade |-> "D+"],
       [radius |-> 10, grade |-> "F"] >>

SingleFamilyClasses == {"Single Family Residence / Townhouse"}

Distance(a, b) == Abs(a - b)

\* float(subject.get("latitude")) does not raise
HasCoordinates(rec) == rec.loc # None

PropClassOk(comp) ==
    ~(comp.propclass # "" /\ comp.propclass \notin SingleFamilyClasses)

\* lines 165-168: the two de-duplication tests against the admitted list
IsDuplicate(chosen, comp) ==
    \/ \E k \in 1..Len(chosen) :
          Truthy(chosen[k].zpid) /\ Truthy(comp.zpid) /\ chosen[k].zpid = comp.zpid
    \/ \E k \in 1..Len(chosen) :
          Truthy(chosen[k].id) /\ Truthy(comp.id) /\ chosen[k].id = comp.id

WithinRadiusWide(distance, radius) == distance <= 2 * radius

WithinRadius(distance, radius) == ~(distance > radius)

BedsOkOneSided(subject, comp) ==
    ~(Truthy(subject.beds) /\ Truthy(comp.beds) /\ comp.beds - subject.beds > 1)

BedsOk(subject, comp) ==
    ~(Truthy(subject.beds) /\ Truthy(comp.beds) /\ Abs(comp.beds - subject.beds) > 1)

BathsOk(subject, comp) ==
    ~(Truthy(subject.baths) /\ Truthy(comp.baths) /\ Abs(comp.baths - subject.baths) > 1)

YearOkUnguarded(subject, comp) ==
    ~(Truthy(comp.year) /\ Abs(comp.year - subject.year) > year_tolerance)

YearOk(subject, comp) ==
    ~(Truthy(subject.year) /\ Truthy(comp.year)
        /\ Abs(comp.year - subject.year) > year_tolerance)

SqftOk(subject, comp) ==
    ~(Truthy(subject.sqft) /\ Truthy(comp.sqft)
        /\ Abs(comp.sqft - subject.sqft) > sqft_tolerance)

\* the body of the inner loop up to the append: TRUE when no `continue` is taken
Passes(subject, comp, radius, chosen) ==
    /\ PropClassOk(comp)
    /\ ~IsDuplicate(chosen, comp)
    /\ HasCoordinates(comp)
    /\ WithinRadius(Distance(subject.loc, comp.loc), radius)
    /\ BedsOk(subject, comp)
    /\ BathsOk(subject, comp)
    /\ YearOk(subject, comp)
    /\ SqftOk(subject, comp)

\* {**comp, "grade": grade, "distance": distance}
Admitted(subject, comp, t) ==
    [grade |-> Tiers[t].grade, distance |-> Distance(subject.loc, comp.loc)] @@ comp

ScanOne(subject, comp, t, chosen) ==
    IF Passes(subject, comp, Tiers[t].radius, chosen)
    THEN Append(chosen, Admitted(subject, comp, t))
    ELSE chosen

CapReachedOffByOne(chosen) == Len(chosen) > 3

CapReached(chosen) == Len(chosen) >= 3

RECURSIVE InnerLoop(_, _, _, _, _)
InnerLoop(subject, comps, t, k, chosen) ==
    IF k > Len(comps) THEN chosen
    ELSE LET next == ScanOne(subject, comps[k], t, chosen)
         IN  IF next # chosen /\ CapReached(next) THEN next
             ELSE InnerLoop(subject, comps, t, k + 1, next)

RECURSIVE TierLoop(_, _, _, _)
TierLoop(subject, comps, t, chosen) ==
    IF t > Len(Tiers) \/ CapReached(chosen) THEN chosen
    ELSE TierLoop(subject, comps, t + 1, InnerLoop(subject, comps, t, 1, chosen))

\* sorted(chosen, key=lambda x: x["distance"]): a stable sort
RECURSIVE InsertByDistance(_, _)
InsertByDistance(s, x) ==
    IF s = <<>> THEN <<x>>
    ELSE IF Head(s).distance > x.distance THEN <<x>> \o s
    ELSE <<Head(s)>> \o InsertByDistance(Tail(s), x)

SortUnsorted(s) == s

RECURSIVE SortByDistance(_)
SortByDistance(s) ==
    IF s = <<>> THEN <<>>
    ELSE InsertByDistance(SortByDistance(SubSeq(s, 1, Len(s) - 1)), s[Len(s)])

\* lines 211-219
Sold(comp) == IF Truthy(comp.price) THEN comp.price ELSE 0

HasPsf(comp) == Truthy(comp.sqft) /\ Truthy(Sold(comp))

Psf(comp) == Rat(Sold(comp), comp.sqft)

RECURSIVE Psfs(_)
Psfs(s) ==
    IF s = <<>> THEN <<>>
    ELSE (IF HasPsf(Head(s)) THEN <<Psf(Head(s))>> ELSE <<>>) \o Psfs(Tail(s))

\* lines 221-231
Formatted(comp) ==
    [ sold_price |-> Sold(comp),
      sqft       |-> comp.sqft,
      zillow_url |-> IF Truthy(comp.zpid) THEN comp.zpid ELSE None,
      grade      |-> comp.grade,
      yearBuilt  |-> comp.year,
      beds       |-> comp.beds,
      baths      |-> comp.baths,
      psf        |-> IF HasPsf(comp) THEN Round2(Psf(comp)) ELSE None ]

AvgPsfOverAll(ordered) ==
    IF Psfs(ordered) # <<>> THEN RatDivInt(RatSum(Psfs(ordered)), Len(ordered))
    ELSE <<0, 1>>

\* line 233
AvgPsf(ordered) ==
    IF Psfs(ordered) # <<>> THEN RatDivInt(RatSum(Psfs(ordered)), Len(Psfs(ordered)))
    ELSE <<0, 1>>

\* ------------------------------------------------------------ inputs
Comp(zpid, id, loc, propclass, beds, baths, year, sqft, price, saleAge) ==
    [ zpid |-> zpid, id |-> id, loc |-> loc, propclass |-> propclass,
      beds |-> beds, baths |-> baths, year |-> year, sqft |-> sqft,
      price |-> price, saleAge |-> saleAge ]

Subject(loc, sqft, beds, baths, year) ==
    [ loc |-> loc, sqft |-> sqft, beds |-> beds, baths |-> baths, year |-> year ]

EmptySubject == Subject(None, None, None, None, None)

\* candidates that differ in identity and location, similar to the subject
IdentityCandidates ==
    { Comp(z[1], z[2], l, "", 3, 2, 1990, 1500, 300000, 3) :
        z \in {<<None, None>>, <<7, None>>, <<None, 7>>}, l \in {1, 4} }
    \cup { Comp(8, None, l, "", 3, 2, 1990, 1500, 300000, 3) : l \in {2, 10, 11} }
    \cup { Comp(9, None, None, "", 3, 2, 1990, 1500, 300000, 3) }

\* candidates near the subject that differ in the similarity attributes
SimilarityCandidates ==
    { Comp(100 + b, None, 1, "", b, 2, 1990, 1500, 300000, 3) : b \in {1, 2, 4, 5} }
    \cup { Comp(201, None, 1, "", 3, 2, None, 1500, 300000, 3),
           Comp(202, None, 1, "", 3, 2, 1950, 1500, 300000, 3),
           Comp(203, None, 1, "", 3, 2, 2020, 1500, 300000, 3) }
    \cup { Comp(300, None, 2, "", 3, 2, 1990, 0, 200000, 3),
           Comp(310, None, 2, "", 3, 2, 1990, 1000, 200000, 3),
           Comp(312, None, 2, "", 3, 2, 1990, 1200, 300000, 3),
           Comp(321, None, 2, "", 3, 2, 1990, 2100, 250000, 3) }
    \cup { Comp(400, None, 2, "", 3, 2, 1990, 1500, None, 3),
           Comp(500, None, 1, "Commercial", 3, 2, 1990, 1500, 300000, 3),
           Comp(600, None, 1, "Single Family Residence / Townhouse", 3, 4, 1990, 1500, 300000, 3) }

SelSubjects ==
    { Subject(0, 1500, 3, 2, 1990), Subject(1, None, None, None, None) }

SimSubjects ==
    { Subject(0, 1500, 3, 2, 1990), Subject(0, None, 3, 2, 1990),
      Subject(0, 1500, None, 2, 1990), Subject(0, 1500, 3, None, None) }

\* candidates that differ in the year built, two properties in every year
YearValues == {None, 1950, 2020}

YearCandidates ==
    { Comp(31, None, 1, "", 3, 2, y, 1500, 300000, 3) : y \in YearValues }
    \cup { Comp(32, None, 2, "", 3, 2, y, 1400, 280000, 3) : y \in YearValues }

\* subjects without a year built (a missing key, or a falsy 0), and one with
YearSubjects ==
    { Subject(0, 1500, 3, 2, None), Subject(0, 1500, 3, 2, 0), Subject(0, 1500, 3, 2, 1990) }

\* ------------------------------------------------------------ get_subject_data
\* lines 115-141: the list fetch_attom_comps returns when the provider would
\* answer `response` (the empty list for a non-200 status or a request error)
fetch_attom_comps(subj, response) ==
    IF ~HasCoordinates(subj) THEN <<>> ELSE response

\* lines 131-141: what the single request of fetch_attom_comps yields.  status
\* is the first response: "200", "429" (rate limit), "500" (any other non-200
\* status) or "neterr" (httpx.RequestError); data is the list under "property"
\* that the provider serves with a 200.
AttomAnswer(status, data) == IF status = "200" THEN data ELSE <<>>

\* lines 65-72: fill in missing details only
FillMissing(info, attom_details) ==
    [ loc   |-> info.loc,
      sqft  |-> IF ~Truthy(info.sqft) THEN attom_details.sqft ELSE info.sqft,
      beds  |-> IF ~Truthy(info.beds) THEN attom_details.beds ELSE info.beds,
      baths |-> IF ~Truthy(info.baths) THEN attom_details.baths ELSE info.baths,
      year  |-> IF ~Truthy(info.year) THEN attom_details.year ELSE info.year ]

\* lines 43-55: subject_info after the Zillow details step
ZillowInfo(zpid, gmaps, details) ==
    IF Truthy(zpid)
    THEN Subject(gmaps, details.sqft, details.beds, details.baths, details.year)
    ELSE Subject(gmaps, None, None, None, None)

\* line 58: the guard of the supplementary ATTOM lookup
NeedsAttomDetails(info) == ~Truthy(info.beds) \/ ~Truthy(info.sqft)

\* lines 58-61: the number of ATTOM detail requests get_subject_data sends
DetailLookups(zpid, gmaps, details) ==
    IF gmaps = None THEN 0
    ELSE IF NeedsAttomDetails(ZillowInfo(zpid, gmaps, details))
              /\ HasCoordinates(ZillowInfo(zpid, gmaps, details))
         THEN 1 ELSE 0

\* lines 22-76.  zpid: what find_zpid_by_address_async returns; gmaps: the
\* location get_coordinates returns, or None; details: the homeInfo of
\* fetch_property_details, every field None for {}; attom: the provider's answer
\* to the radius=0.1, count=1 query.  Returns <<subj_ids.zpid, subject_info>>.
get_subject_data(zpid, gmaps, details, attom) ==
    IF gmaps = None THEN <<None, EmptySubject>>
    ELSE LET info == ZillowInfo(zpid, gmaps, details)
             attom_details_list == fetch_attom_comps(info, attom)
             subject_info ==
                 IF NeedsAttomDetails(info) /\ attom_details_list # <<>>
                 THEN FillMissing(info, attom_details_list[1])
                 ELSE info
         IN  <<IF Truthy(zpid) THEN zpid ELSE None, subject_info>>

\* lines 239-240
ApplyManualSqft(subj, manual) ==
    IF Truthy(manual) THEN [subj EXCEPT !.sqft = manual] ELSE subj

\* ------------------------------------------------------------ get_comp_summary
Unparsed == None - 1

\* get_sale_date as months before now; datetime.min is older than any sale
OldestAge == 100000

get_sale_age(comp) ==
    IF comp.saleAge = None \/ comp.saleAge = Unparsed THEN OldestAge ELSE comp.saleAge

\* sorted(raw_comps, key=get_sale_date, reverse=True): newest first, stable
RECURSIVE InsertBySaleDate(_, _)
InsertBySaleDate(s, x) ==
    IF s = <<>> THEN <<x>>
    ELSE IF get_sale_age(Head(s)) > get_sale_age(x) THEN <<x>> \o s
    ELSE <<Head(s)>> \o InsertBySaleDate(Tail(s), x)

RECURSIVE SortBySaleDate(_)
SortBySaleDate(s) ==
    IF s = <<>> THEN <<>>
    ELSE InsertBySaleDate(SortBySaleDate(SubSeq(s, 1, Len(s) - 1)), s[Len(s)])

RawCompsZillowOnly(zillow, attom) == zillow

\* lines 243-248: raw_comps after both extends
RawComps(zillow, attom) == zillow \o attom

\* ------------------------------------------------------------ get_comps_and_arv
fee == 40000

\* int(x) of the float num / den: truncation toward zero
TruncDiv(num, den) == IF num >= 0 THEN num \div den ELSE -((-num) \div den)

\* arv_multiplier, in percent
arv_multiplier(arv) ==
    IF arv < 100000 THEN 55
    ELSE IF arv < 150000 THEN 65
    ELSE IF arv < 250000 THEN 70
    ELSE IF arv < 350000 THEN 75
    ELSE IF arv < 500000 THEN 80
    ELSE 85

get_comps_and_arv(arv_estimate, notes, rehab_level) ==
    LET rehab_cost == 10000 * rehab_level
    IN  [ arv            |-> arv_estimate,
          rehab_cost     |-> rehab_cost,
          fee            |-> fee,
          cash_offer     |-> TruncDiv(arv_estimate * arv_multiplier(arv_estimate)
                                        - 100 * (rehab_cost + fee), 100),
          rbp_offer      |-> TruncDiv(arv_estimate * 90 - 100 * fee, 100),
          takedown_offer |-> TruncDiv(arv_estimate * 95 - 100 * 75000, 100) ]

NoDeals ==
    [ arv |-> None, rehab_cost |-> None, fee |-> None, cash_offer |-> None,
      rbp_offer |-> None, takedown_offer |-> None ]

\* ------------------------------------------------------------ provider answers
\* homeInfo of the Zillow details call; every field None for a failed call
DetailsAnswers ==
    { [sqft |-> None, beds |-> None, baths |-> None, year |-> None],
      [sqft |-> 1500, beds |-> 3, baths |-> 2, year |-> 1990],
      [sqft |-> 1500, beds |-> 3, baths |-> None, year |-> None],
      [sqft |-> None, beds |-> 3, baths |-> 2, year |-> 1990] }

ZillowRecords ==
    { Comp(21, None, 1, "", 3, 2, 1990, 1500, 300000, None),
      Comp(22, None, 4, "", 3, 2, 1990, 1000, 200000, None),
      Comp(23, None, 2, "", 5, 2, 1990, 1500, 300000, None) }

AttomRecords ==
    { Comp(None, None, 1, "Single Family Residence / Townhouse", 3, 2, 1990, 1500, 300000, 3),
      Comp(None, None, 1, "Single Family Residence / Townhouse", 3, 2, 1990, 1500, 300000, 14),
      Comp(None, None, 2, "Single Family Residence / Townhouse", 3, 2, 1985, 1400, 280000, Unparsed) }

\* the provider's answer to the subject-details query (radius=0.1, count=1)
AttomDetailAnswers ==
    { <<>>,
      <<Comp(None, None, 0, "Single Family Residence / Townhouse", 4, 3, 1975, 1800, None, None)>>,
      <<Comp(None, None, 0, "", None, None, None, None, None, None)>> }

\* parse_address: None when the message has no Sqft line
ManualSqfts == {None, 0, 1200}

Levels == {1, 2}

\* ------------------------------------------------------------ state
VARIABLES
    pc,            \* position in on_message / get_comp_summary / get_clean_comps
    manual_sqft,   \* on_message: parse_address's manual_sqft
    level,         \* on_message: the rehab level
    subj_zpid,     \* get_comp_summary: subj_ids.get("zpid")
    geocoded,      \* whether get_coordinates returned a location
    zillow_comps,  \* what fetch_zillow_comps returned
    attom_comps,   \* what fetch_attom_comps returned to get_comp_summary
    attom_queried, \* whether get_comp_summary's ATTOM request was sent
    raw_comps,     \* get_comp_summary: raw_comps
    result,        \* what get_comp_summary returned
    deals,         \* on_message: deals
    reply,         \* on_message: the reply sent
    zillow_info,   \* get_subject_data: subject_info after the Zillow details step
    detail_lookups, \* get_subject_data: ATTOM detail requests sent
    attom_status,  \* first response to get_comp_summary's ATTOM request, "" if none
    attom_data,    \* the records ATTOM serves with a 200, also after a 429
    attom_requests, \* requests get_comp_summary's fetch_attom_comps sent
    raised_in,     \* the call whose exception left get_comp_summary, "" if none
    subject,       \* get_comp_summary / get_clean_comps: subject
    comps,         \* get_clean_comps: comps
    tier,          \* get_clean_comps: index of the tier of the outer loop
    i,             \* get_clean_comps: index of the comp of the inner loop
    chosen,        \* get_clean_comps: chosen
    ordered,       \* get_clean_comps: sorted(chosen, key=distance)
    formatted,     \* get_clean_comps: formatted
    avg_psf        \* get_clean_comps: avg_psf

pipevars ==
    <<manual_sqft, level, subj_zpid, geocoded, zillow_comps, attom_comps,
      attom_queried, raw_comps, result, deals, reply,
      zillow_info, detail_lookups, attom_status, attom_data, attom_requests, raised_in>>

selvars == <<subject, comps, tier, i, chosen, ordered, formatted, avg_psf>>

vars == <<pc, pipevars, selvars>>

\* ------------------------------------------------------------ get_clean_comps, step by step
\* lines 145-154: entry of get_clean_comps
CleanStart ==
    /\ pc = "clean"
    /\ IF HasCoordinates(subject)
       THEN /\ pc' = "tier"
            /\ tier' = 1
            /\ chosen' = <<>>
            /\ UNCHANGED <<i, ordered, formatted, avg_psf>>
       ELSE /\ pc' = "cleaned"
            /\ formatted' = <<>>
            /\ avg_psf' = <<0, 1>>
            /\ UNCHANGED <<tier, i, chosen, ordered>>
    /\ UNCHANGED <<subject, comps, pipevars>>

\* lines 156-158: head of the tier loop
TierHead ==
    /\ pc = "tier"
    /\ IF tier > Len(Tiers) \/ CapReached(chosen)
       THEN pc' = "format" /\ UNCHANGED i
       ELSE pc' = "scan" /\ i' = 1
    /\ UNCHANGED <<subject, comps, tier, chosen, ordered, formatted, avg_psf, pipevars>>

\* lines 160-205: one iteration of the inner loop
ScanComp ==
    /\ pc = "scan"
    /\ i <= Len(comps)
    /\ chosen' = ScanOne(subject, comps[i], tier, chosen)
    /\ IF chosen' # chosen /\ CapReached(chosen')
       THEN pc' = "tier" /\ tier' = tier + 1 /\ UNCHANGED i
       ELSE i' = i + 1 /\ UNCHANGED <<pc, tier>>
    /\ UNCHANGED <<subject, comps, ordered, formatted, avg_psf, pipevars>>

\* the inner loop is exhausted: next tier
ScanEnd ==
    /\ pc = "scan"
    /\ i > Len(comps)
    /\ pc' = "tier"
    /\ tier' = tier + 1
    /\ UNCHANGED <<subject, comps, i, chosen, ordered, formatted, avg_psf, pipevars>>

\* lines 207-234
Format ==
    /\ pc = "format"
    /\ ordered' = SortByDistance(chosen)
    /\ formatted' = [k \in 1..Len(chosen) |-> Formatted(ordered'[k])]
    /\ avg_psf' = AvgPsf(ordered')
    /\ pc' = "cleaned"
    /\ UNCHANGED <<subject, comps, tier, i, chosen, pipevars>>

SelectionNext == CleanStart \/ TierHead \/ ScanComp \/ ScanEnd \/ Format

InitSelState ==
    /\ tier = 0
    /\ i = 0
    /\ chosen = <<>>
    /\ ordered = <<>>
    /\ formatted = <<>>
    /\ avg_psf = <<0, 1>>

InitPipeState ==
    /\ subj_zpid = None
    /\ geocoded = FALSE
    /\ zillow_comps = <<>>
    /\ attom_comps = <<>>
    /\ attom_queried = FALSE
    /\ raw_comps = <<>>
    /\ result = << <<>>, <<0, 1>>, 0 >>
    /\ deals = NoDeals
    /\ reply = ""
    /\ zillow_info = EmptySubject
    /\ detail_lookups = 0
    /\ attom_status = ""
    /\ attom_data = <<>>
    /\ attom_requests = 0
    /\ raised_in = ""

\* get_clean_comps applied to pools that vary identity and location
InitSel ==
    /\ pc = "clean"
    /\ subject \in SelSubjects
    /\ comps \in SeqsUpTo(IdentityCandidates, MaxPool)
    /\ manual_sqft = None
    /\ level = 1
    /\ InitPipeState
    /\ InitSelState

SpecSel == InitSel /\ [][SelectionNext]_vars

\* get_clean_comps applied to pools that vary the similarity attributes
InitSim ==
    /\ pc = "clean"
    /\ subject \in SimSubjects
    /\ comps \in SeqsUpTo(SimilarityCandidates, MaxSimPool)
    /\ manual_sqft = None
    /\ level = 1
    /\ InitPipeState
    /\ InitSelState

SpecSim == InitSim /\ [][SelectionNext]_vars

\* get_clean_comps applied to pools that vary the year built
InitYear ==
    /\ pc = "clean"
    /\ subject \in YearSubjects
    /\ comps \in SeqsUpTo(YearCandidates, MaxYearPool)
    /\ manual_sqft = None
    /\ level = 1
    /\ InitPipeState
    /\ InitSelState

SpecYear == InitYear /\ [][SelectionNext]_vars

\* ------------------------------------------------------------ on_message / get_comp_summary
\* lines 238-240: get_subject_data, then the manual override
SubjectData ==
    /\ pc = "start"
    /\ \E zpid \in {None, 55}, gmaps \in {None, 0},
          details \in DetailsAnswers, attom \in AttomDetailAnswers :
          LET got == get_subject_data(zpid, gmaps, details, attom)
          IN  /\ subj_zpid' = got[1]
              /\ subject' = ApplyManualSqft(got[2], manual_sqft)
              /\ geocoded' = (gmaps # None)
              /\ zillow_info' = IF gmaps = None THEN EmptySubject
                                ELSE ZillowInfo(zpid, gmaps, details)
              /\ detail_lookups' = DetailLookups(zpid, gmaps, details)
    /\ pc' = "zillow"
    /\ UNCHANGED <<manual_sqft, level, zillow_comps, attom_comps, attom_queried,
                   raw_comps, result, deals, reply,
                   attom_status, attom_data, attom_requests, raised_in,
                   comps, tier, i, chosen, ordered, formatted, avg_psf>>

\* lines 46-47, 61: the body of the details response (fetch_property_details,
\* line 86) or of the ATTOM detail response (line 137) is not JSON, or is JSON
\* of another shape than a dict (line 47, line 138): ValueError or
\* AttributeError, which `except httpx.RequestError` does not catch
SubjectDataRaises ==
    /\ pc = "start"
    /\ geocoded' = TRUE
    /\ raised_in' = "get_subject_data"
    /\ pc' = "raised"
    /\ UNCHANGED <<manual_sqft, level, subj_zpid, zillow_comps, attom_comps, attom_queried,
                   raw_comps, result, deals, reply,
                   zillow_info, detail_lookups, attom_status, attom_data, attom_requests,
                   selvars>>

\* lines 245-246, with a provider id
FetchZillow ==
    /\ pc = "zillow"
    /\ Truthy(subj_zpid)
    /\ \E answer \in SeqsUpTo(ZillowRecords, MaxResp) :
          /\ zillow_comps' = answer
          /\ raw_comps' = answer
    /\ pc' = "attom"
    /\ UNCHANGED <<manual_sqft, level, subj_zpid, geocoded, attom_comps, attom_queried,
                   result, deals, reply,
                   zillow_info, detail_lookups, attom_status, attom_data, attom_requests,
                   raised_in, selvars>>

\* lines 93-94, 105: a response body of fetch_zillow_comps that is not JSON, or
\* not a dict
FetchZillowRaises ==
    /\ pc = "zillow"
    /\ Truthy(subj_zpid)
    /\ raised_in' = "fetch_zillow_comps"
    /\ pc' = "raised"
    /\ UNCHANGED <<manual_sqft, level, subj_zpid, geocoded, zillow_comps, attom_comps,
                   attom_queried, raw_comps, result, deals, reply,
                   zillow_info, detail_lookups, attom_status, attom_data, attom_requests,
                   selvars>>

\* line 245, without one
SkipZillow ==
    /\ pc = "zillow"
    /\ ~Truthy(subj_zpid)
    /\ pc' = "attom"
    /\ UNCHANGED <<pipevars, selvars>>

\* line 248
FetchAttom ==
    /\ pc = "attom"
    /\ \E status \in {"200", "429", "500", "neterr"} :
       \E data \in IF status \in {"200", "429"} /\ HasCoordinates(subject)
                   THEN SeqsUpTo(AttomRecords, MaxResp) ELSE {<<>>} :
          /\ attom_comps' = fetch_attom_comps(subject, AttomAnswer(status, data))
          /\ raw_comps' = RawComps(zillow_comps, attom_comps')
          /\ attom_status' = IF HasCoordinates(subject) THEN status ELSE ""
          /\ attom_data' = data
    /\ attom_queried' = HasCoordinates(subject)
    /\ attom_requests' = IF HasCoordinates(subject) THEN 1 ELSE 0
    /\ pc' = "sort"
    /\ UNCHANGED <<manual_sqft, level, subj_zpid, geocoded, zillow_comps,
                   result, deals, reply, zillow_info, detail_lookups, raised_in, selvars>>

\* lines 137-138: a response body of fetch_attom_comps that is not JSON, or not
\* a dict
FetchAttomRaises ==
    /\ pc = "attom"
    /\ HasCoordinates(subject)
    /\ attom_queried' = TRUE
    /\ attom_requests' = 1
    /\ attom_status' = "badbody"
    /\ raised_in' = "fetch_attom_comps"
    /\ pc' = "raised"
    /\ UNCHANGED <<manual_sqft, level, subj_zpid, geocoded, zillow_comps, attom_comps,
                   raw_comps, result, deals, reply, zillow_info, detail_lookups, attom_data,
                   selvars>>

\* lines 250-269, up to the call of get_clean_comps
SortComps ==
    /\ pc = "sort"
    /\ raw_comps # <<>>
    /\ comps' = SortBySaleDate(raw_comps)
    /\ pc' = "clean"
    /\ UNCHANGED <<pipevars, subject, tier, i, chosen, ordered, formatted, avg_psf>>

\* line 250, nothing fetched: clean_comps, avg_psf stay [], 0.0
NoComps ==
    /\ pc = "sort"
    /\ raw_comps = <<>>
    /\ pc' = "cleaned"
    /\ UNCHANGED <<pipevars, selvars>>

\* line 271
Return ==
    /\ pc = "cleaned"
    /\ result' = <<formatted, avg_psf, IF Truthy(subject.sqft) THEN subject.sqft ELSE 0>>
    /\ pc' = "returned"
    /\ UNCHANGED <<manual_sqft, level, subj_zpid, geocoded, zillow_comps, attom_comps,
                   attom_queried, raw_comps, deals, reply,
                   zillow_info, detail_lookups, attom_status, attom_data, attom_requests,
                   raised_in, selvars>>

\* main.py lines 55-57
ReplyNoComps ==
    /\ pc = "returned"
    /\ result[1] = <<>>
    /\ reply' = "No comparable sales found"
    /\ pc' = "done"
    /\ UNCHANGED <<manual_sqft, level, subj_zpid, geocoded, zillow_comps, attom_comps,
                   attom_queried, raw_comps, result, deals,
                   zillow_info, detail_lookups, attom_status, attom_data, attom_requests,
                   raised_in, selvars>>

\* main.py lines 59-122; avg_psf reaches get_comps_and_arv as its `notes`
ReplyDeals ==
    /\ pc = "returned"
    /\ result[1] # <<>>
    /\ deals' = get_comps_and_arv(result[3], result[2], level)
    /\ reply' = "Deal Breakdowns"
    /\ pc' = "done"
    /\ UNCHANGED <<manual_sqft, level, subj_zpid, geocoded, zillow_comps, attom_comps,
                   attom_queried, raw_comps, result,
                   zillow_info, detail_lookups, attom_status, attom_data, attom_requests,
                   raised_in, selvars>>

\* main.py lines 72-75: the exception reaches on_message
ReplyError ==
    /\ pc = "raised"
    /\ reply' = "Something went wrong"
    /\ pc' = "done"
    /\ UNCHANGED <<manual_sqft, level, subj_zpid, geocoded, zillow_comps, attom_comps,
                   attom_queried, raw_comps, result, deals,
                   zillow_info, detail_lookups, attom_status, attom_data, attom_requests,
                   raised_in, selvars>>

Init ==
    /\ pc = "start"
    /\ manual_sqft \in ManualSqfts
    /\ level \in Levels
    /\ subject = EmptySubject
    /\ comps = <<>>
    /\ InitPipeState
    /\ InitSelState

Next ==
    \/ SubjectData
    \/ SubjectDataRaises
    \/ FetchZillow
    \/ FetchZillowRaises
    \/ SkipZillow
    \/ FetchAttom
    \/ FetchAttomRaises
    \/ SortComps
    \/ NoComps
    \/ CleanStart
    \/ TierHead
    \/ ScanComp
    \/ ScanEnd
    \/ Format
    \/ Return
    \/ ReplyNoComps
    \/ ReplyDeals
    \/ ReplyError

Spec == Init /\ [][Next]_vars

\* ------------------------------------------------------------ properties
\* the candidate record an admitted comp was made from
Record(c) ==
    Comp(c.zpid, c.id, c.loc, c.propclass, c.beds, c.baths, c.year, c.sqft, c.price, c.saleAge)

Count(s, x) == Cardinality({k \in 1..Len(s) : s[k] = x})

SameElements(s, t) ==
    /\ Len(s) = Len(t)
    /\ \A k \in 1..Len(s) : Count(s, s[k]) = Count(t, s[k])

TierRadius(grade) == (CHOOSE t \in 1..Len(Tiers) : Tiers[t].grade = grade)

\* C1: selection returns at most 3 comps, and the admitted list never holds
\* more than 3 entries at any point of the tier loop.
C1_AtMostThree ==
    /\ Len(chosen) <= 3
    /\ Len(ordered) <= 3
    /\ Len(formatted) <= 3

\* a pool with more than three candidates eligible in the widest tier was cut to 3
C1_Witness ==
    /\ pc = "cleaned"
    /\ Len(formatted) = 3
    /\ Cardinality({k \in 1..Len(comps) :
                      Passes(subject, comps[k], Tiers[Len(Tiers)].radius, <<>>)}) > 3

\* C2: no candidate record of a pool of pairwise-distinct records is admitted
\* twice, whether it carries a zpid, an id, or neither.
C2_NoRecordAdmittedTwice ==
    (\A j, k \in 1..Len(comps) : j # k => comps[j] # comps[k]) =>
        \A j, k \in 1..Len(chosen) : j # k => Record(chosen[j]) # Record(chosen[k])

\* C3: a candidate whose sale date is known and lies more than 12 months before
\* now is never admitted by the pipeline's selection.
C3_StaleSaleNeverAdmitted ==
    \A k \in 1..Len(chosen) :
        chosen[k].saleAge \in {None, Unparsed} \/ chosen[k].saleAge <= 12

\* C4: the deal calculator, as on_message invokes it, reports an ARV equal to
\* subject_sqft multiplied by avg_psf.
C4_ArvIsSqftTimesAvgPsf ==
    reply = "Deal Breakdowns" =>
        Rat(deals.arv, 1) = Rat(result[3] * result[2][1], result[2][2])

\* C5: when the geocoder fails, get_comp_summary returns an outcome that differs
\* from the valid empty result (empty list, 0.0, sqft), and computes no comps.
C5_GeocodeFailureReported ==
    (pc \in {"returned", "done"} /\ raised_in = "" /\ ~geocoded) =>
        /\ ~(result[1] = <<>> /\ result[2] = <<0, 1>>)
        /\ comps = <<>>

\* C6: whenever manual_sqft is provided, the subject square footage returned as
\* subject_sqft equals manual_sqft, whatever the lookups fetched.
C6_ManualSqftWins ==
    (pc \in {"returned", "done"} /\ raised_in = "" /\ manual_sqft # None) =>
        result[3] = manual_sqft

\* C7: every admitted comp lies within the radius of the tier named by its
\* grade, and the comps are returned in ascending order of distance.
C7_WithinTierRadiusAndSorted ==
    /\ \A k \in 1..Len(chosen) :
          chosen[k].distance <= Tiers[TierRadius(chosen[k].grade)].radius
    /\ pc = "cleaned" =>
          /\ SameElements(ordered, chosen)
          /\ \A k \in 1..Len(ordered) : formatted[k].grade = ordered[k].grade
          /\ \A j, k \in 1..Len(ordered) :
                j < k => ordered[j].distance <= ordered[k].distance

\* the sort moved a comp: a nearer one was admitted after a farther one, and
\* two tiers contributed
C7_Witness ==
    /\ pc = "cleaned"
    /\ Len(ordered) >= 2
    /\ ordered # chosen
    /\ \E j, k \in 1..Len(ordered) : ordered[j].grade # ordered[k].grade

\* the sum of price / sqft over the comps of `s` at the indices in `idx`
RECURSIVE PsfSumOver(_, _)
PsfSumOver(s, idx) ==
    IF idx = {} THEN <<0, 1>>
    ELSE LET k == CHOOSE x \in idx : TRUE
         IN  RatAdd(Rat(s[k].price, s[k].sqft), PsfSumOver(s, idx \ {k}))

PricedComps(s) == {k \in 1..Len(s) : s[k].price > 0 /\ s[k].sqft > 0}

\* C8: avg_psf is the arithmetic mean of price / sqft over exactly the admitted
\* comps with a known price and a known positive sqft, and 0 when there is none;
\* the other comps stay in the returned list, without a psf.
C8_AvgPsfIsMean ==
    pc = "cleaned" =>
        /\ avg_psf[2] > 0
        /\ IF PricedComps(ordered) = {} THEN avg_psf = <<0, 1>>
           ELSE Rat(avg_psf[1] * Cardinality(PricedComps(ordered)), avg_psf[2])
                   = PsfSumOver(ordered, PricedComps(ordered))
        /\ Len(formatted) = Len(chosen)
        /\ \A k \in 1..Len(formatted) :
              (formatted[k].psf = None) <=> (k \notin PricedComps(ordered))

\* comps with different psf values were averaged, beside one without a psf
C8_Witness ==
    /\ pc = "cleaned"
    /\ Cardinality(PricedComps(ordered)) = 2
    /\ Len(ordered) = 3
    /\ \E j, k \in PricedComps(ordered) : formatted[j].psf # formatted[k].psf

\* C9: when the primary source yields no candidates or is not queried, the
\* fallback is queried before selection runs, and selection receives the
\* fallback's candidates whenever the fallback returns any.
C9_FallbackBeforeSelection ==
    ( /\ zillow_comps = <<>>
      /\ pc \notin {"start", "zillow", "attom"}
      /\ raised_in \in {"", "fetch_attom_comps"} ) =>
        /\ geocoded => attom_queried
        /\ (pc # "sort" /\ comps # <<>>) => attom_queried
        /\ (pc # "sort" /\ attom_comps # <<>>) => SameElements(comps, attom_comps)

\* the primary source was queried and returned nothing; the fallback's
\* candidates went through selection
C9_Witness ==
    /\ pc = "done"
    /\ Truthy(subj_zpid)
    /\ zillow_comps = <<>>
    /\ Len(attom_comps) = 2
    /\ reply = "Deal Breakdowns"

WithYears(pool, years) == [k \in 1..Len(pool) |-> [pool[k] EXCEPT !.year = years[k]]]

\* an admitted list without the year built of its comps
YearBlind(s) == [k \in 1..Len(s) |-> [s[k] EXCEPT !.year = None]]

\* C10: when the subject has no year built, every pool that differs from the
\* scanned one only in the year built of its records yields the same admitted
\* comps, with the same grades, in the same order.
C10_YearIgnoredWithoutSubjectYear ==
    (pc = "cleaned" /\ ~Truthy(subject.year)) =>
        \A years \in [1..Len(comps) -> YearValues] :
            YearBlind(SortByDistance(TierLoop(subject, WithYears(comps, years), 1, <<>>)))
              = YearBlind(ordered)

\* a subject without a year admitted a comp built further away than the
\* tolerance from any year a subject could have besides it
C10_Witness ==
    /\ pc = "cleaned"
    /\ subject.year = None
    /\ \E j, k \in 1..Len(ordered) : ordered[j].year = 1950 /\ ordered[k].year = 2020

\* every test of the inner loop but the bedroom one, at the widest radius
PassesBesideBeds(subj, comp) ==
    /\ PropClassOk(comp)
    /\ HasCoordinates(comp)
    /\ WithinRadius(Distance(subj.loc, comp.loc), Tiers[Len(Tiers)].radius)
    /\ BathsOk(subj, comp)
    /\ YearOk(subj, comp)
    /\ SqftOk(subj, comp)

IsAdmitted(comp) == \E j \in 1..Len(chosen) : Record(chosen[j]) = comp

\* C11: when the subject and a candidate both have a bedroom count, the
\* candidate is never admitted if the counts differ by more than 1, in either
\* direction, and a difference of at most 1 does not reject it: it is admitted
\* when it passes the other tests and the cap of 3 left room.
C11_BedsWithinOne ==
    pc = "cleaned" =>
        \A k \in 1..Len(comps) :
            (subject.beds > 0 /\ comps[k].beds > 0) =>
                /\ (comps[k].beds - subject.beds > 1 \/ subject.beds - comps[k].beds > 1)
                      => ~IsAdmitted(comps[k])
                /\ ( /\ comps[k].beds - subject.beds <= 1
                     /\ subject.beds - comps[k].beds <= 1
                     /\ PassesBesideBeds(subject, comps[k])
                     /\ Len(chosen) < 3 )
                      => IsAdmitted(comps[k])

\* subject 3 beds: candidates with 2 and 4 beds were admitted, one with 1 or 5
\* beds was scanned and left out
C11_Witness ==
    /\ pc = "cleaned"
    /\ subject.beds = 3
    /\ \E j, k \in 1..Len(chosen) : chosen[j].beds = 2 /\ chosen[k].beds = 4
    /\ \E k \in 1..Len(comps) : comps[k].beds \in {1, 5} /\ PassesBesideBeds(subject, comps[k])

\* the grade of the tightest tier whose radius covers the distance
TightestGrade(distance) ==
    Tiers[CHOOSE t \in 1..Len(Tiers) :
            /\ distance <= Tiers[t].radius
            /\ \A u \in 1..(t - 1) : distance > Tiers[u].radius].grade

\* C15: every admitted comp carries the grade of the tightest tier whose radius
\* covers its distance.
C15_GradeIsTightestTier ==
    \A k \in 1..Len(chosen) : chosen[k].grade = TightestGrade(chosen[k].distance)

\* some detail of the subject is unset
AnyDetailUnset(info) ==
    ~Truthy(info.sqft) \/ ~Truthy(info.beds) \/ ~Truthy(info.baths) \/ ~Truthy(info.year)

\* C12: when any of the subject's sqft, beds, baths or year is unset after the
\* primary details step, exactly one fallback detail lookup is issued, and it
\* never overwrites a field the primary step populated.
C12_SupplementaryLookup ==
    (pc \notin {"start", "raised"} /\ raised_in = "" /\ geocoded) =>
        /\ AnyDetailUnset(zillow_info) => detail_lookups = 1
        /\ Truthy(zillow_info.beds) => subject.beds = zillow_info.beds
        /\ Truthy(zillow_info.baths) => subject.baths = zillow_info.baths
        /\ Truthy(zillow_info.year) => subject.year = zillow_info.year
        /\ (Truthy(zillow_info.sqft) /\ ~Truthy(manual_sqft)) => subject.sqft = zillow_info.sqft

\* C13: a provider call that fails (non-success status, network error, or a
\* body that cannot be parsed) counts as an empty answer: no exception leaves
\* get_comp_summary, and the pipeline goes on to its return.
C13_ProviderFailureIsEmptyAnswer ==
    /\ raised_in = ""
    /\ pc # "raised"
    /\ reply # "Something went wrong"
    /\ (attom_status \in {"429", "500", "neterr", "badbody"} /\ pc # "attom") =>
           attom_comps = <<>>

\* C14: a rate-limited (429) answer to the fallback's request is retried after
\* a delay, a bounded number of times, so the candidates the provider then
\* serves reach the pipeline.
C14_RateLimitRetried ==
    (attom_status = "429" /\ attom_data # <<>> /\ pc \notin {"start", "zillow", "attom"}) =>
        /\ attom_requests > 1
        /\ attom_comps = attom_data

====
